---------------------------- MODULE Spec2Model ----------------------------
(***************************************************************************)
(* The C++ binding of the Myo SDK: myo::Hub (device registry, listener     *)
(* list, event dispatcher, waitForMyo), myo::Myo and myo::ThrowOnError,    *)
(* over the C ABI declared in libmyo.h.  The closed-source hub behind the  *)
(* ABI is the environment: it produces events inside libmyo_run and        *)
(* result codes for every call.                                            *)
(***************************************************************************)
EXTENDS Integers, Sequences, FiniteSets, TLC

(***************************************************************************)
(* Bounds of the model.                                                    *)
(***************************************************************************)
NumListeners == 2    \* DeviceListener objects 1..NumListeners
MaxMyos == 2         \* the registry is not grown beyond this length
MaxEvents == 2       \* events one libmyo_run call hands to the dispatcher
MaxPolls == 2        \* libmyo_run calls of one waitForMyo are counted up to this

(***************************************************************************)
(* libmyo.h                                                                *)
(***************************************************************************)
libmyo_success == 0
libmyo_error == 1
libmyo_error_invalid_argument == 2
libmyo_error_runtime == 3
libmyo_result_t ==
    {libmyo_success, libmyo_error, libmyo_error_invalid_argument, libmyo_error_runtime}

libmyo_event_paired == 0
libmyo_event_unpaired == 1
libmyo_event_connected == 2
libmyo_event_disconnected == 3
libmyo_event_arm_synced == 4
libmyo_event_arm_unsynced == 5
libmyo_event_orientation == 6
libmyo_event_pose == 7
libmyo_event_rssi == 8
libmyo_event_unlocked == 9
libmyo_event_locked == 10
libmyo_event_emg == 11
libmyo_event_battery_level == 12
libmyo_event_warmup_completed == 13
libmyo_event_type_t == libmyo_event_paired .. libmyo_event_warmup_completed

libmyo_handler_continue == 0
libmyo_handler_stop == 1

\* A null libmyo_myo_t, Myo* or DeviceListener*.
NULL == 0
\* The device handles the hub hands out, and the listeners of the program.
Handles == {1, 2}
Listeners == 1 .. NumListeners

(***************************************************************************)
(* An event of the hub.  libmyo_event_t is an opaque handle, here          *)
(* <<type, device handle, sample>>; its content is read through the        *)
(* libmyo_event_get_* accessors, and fields that are not valid for the     *)
(* type read as zero.  The hub produces every type for every device        *)
(* handle and for the null handle; the content differs from device to      *)
(* device.                                                                 *)
(***************************************************************************)
Events == {<<type, myo, myo>> : type \in libmyo_event_type_t, myo \in {NULL} \cup Handles}

\* No event has reached a handler yet.
NoEvent == <<>>

\* What the hub stored in a field that is valid for the given types only.
Valid(event, types, value) == IF event[1] \in types THEN value ELSE 0

\* The content of the events of the first device, and of the others.
Sample(event, first, others) == IF event[3] = 1 THEN first ELSE others

libmyo_event_get_type(event) == event[1]
libmyo_event_get_myo(event) == event[2]
libmyo_event_get_timestamp(event) == 1000 + event[3]
\* libmyo_version_component_t: major 0, minor 1, patch 2, hardware_rev 3.
libmyo_event_get_firmware_version(event, component) ==
    Valid(event, {libmyo_event_paired, libmyo_event_connected},
          Sample(event, <<1, 5, 1970, 2>>, <<1, 4, 1931, 1>>)[component + 1])
\* libmyo_arm_t: right 0, left 1, unknown 2.
libmyo_event_get_arm(event) ==
    Valid(event, {libmyo_event_arm_synced}, Sample(event, 1, 0))
\* libmyo_x_direction_t: toward_wrist 0, toward_elbow 1, unknown 2.
libmyo_event_get_x_direction(event) ==
    Valid(event, {libmyo_event_arm_synced}, Sample(event, 0, 1))
libmyo_event_get_rotation_on_arm(event) ==
    Valid(event, {libmyo_event_arm_synced}, Sample(event, 3, 1))
\* libmyo_warmup_state_t: unknown 0, cold 1, warm 2.
libmyo_event_get_warmup_state(event) ==
    Valid(event, {libmyo_event_arm_synced}, Sample(event, 1, 2))
\* libmyo_warmup_result_t: unknown 0, success 1, failed_timeout 2.
libmyo_event_get_warmup_result(event) ==
    Valid(event, {libmyo_event_warmup_completed}, Sample(event, 1, 2))
\* libmyo_orientation_index: x 0, y 1, z 2, w 3.
libmyo_event_get_orientation(event, index) ==
    Valid(event, {libmyo_event_orientation},
          Sample(event, <<0, 0, 0, 1>>, <<2, 3, 5, 7>>)[index + 1])
libmyo_event_get_accelerometer(event, index) ==
    Valid(event, {libmyo_event_orientation},
          Sample(event, <<0, 0, 1>>, <<11, 13, 17>>)[index + 1])
libmyo_event_get_gyroscope(event, index) ==
    Valid(event, {libmyo_event_orientation},
          Sample(event, <<19, 23, 29>>, <<31, 37, 41>>)[index + 1])
\* libmyo_pose_t: rest 0, fist 1, wave_in 2, ...
libmyo_event_get_pose(event) == Valid(event, {libmyo_event_pose}, Sample(event, 1, 4))
libmyo_event_get_rssi(event) == Valid(event, {libmyo_event_rssi}, Sample(event, -50, -71))
libmyo_event_get_battery_level(event) ==
    Valid(event, {libmyo_event_battery_level}, Sample(event, 90, 15))
libmyo_event_get_emg(event, sensor) ==
    Valid(event, {libmyo_event_emg},
          Sample(event, <<1, -2, 3, -4, 5, -6, 7, -8>>,
                        <<-128, 127, 0, 9, -9, 33, -33, 64>>)[sensor + 1])

(***************************************************************************)
(* Error details and ThrowOnError.  libmyo_error_details_t is an opaque    *)
(* handle: NoError is the null handle, <<kind>> a handle whose             *)
(* libmyo_error_kind is kind.  A call that fails stores the details of its *)
(* result code through out_error.  A call that succeeds stores nothing, or *)
(* details of the kind libmyo_success: the library is closed, and the      *)
(* destructor of ThrowOnError has a case for that kind.                    *)
(***************************************************************************)
NoError == <<>>
\* The details an ABI call that returns result may store through out_error.
out_error(result) ==
    IF result = libmyo_success THEN {NoError, <<libmyo_success>>} ELSE {<<result>>}
libmyo_error_kind(error) == error[1]

Exceptions == {"none", "runtime_error", "invalid_argument"}

\* ThrowOnError::~ThrowOnError: the libmyo_free_error_details calls it makes
\* for the details in _error.
Frees(error) ==
    IF error # NoError
    THEN CASE libmyo_error_kind(error) \in {libmyo_error, libmyo_error_runtime} -> 1
           [] libmyo_error_kind(error) = libmyo_error_invalid_argument -> 1
           [] libmyo_error_kind(error) = libmyo_success -> 0
    ELSE 0

\* A faulty destructor whose switch has no case for libmyo_error.
ThrowOnError_NoGenericCase(error) ==
    IF error # NoError
    THEN CASE libmyo_error_kind(error) = libmyo_error_runtime
                -> "runtime_error"
           [] libmyo_error_kind(error) = libmyo_error_invalid_argument
                -> "invalid_argument"
           [] OTHER
                -> "none"
    ELSE "none"

\* ThrowOnError::~ThrowOnError with the details the call stored in _error:
\* the exception thrown to the caller, "none" when the destructor returns.
ThrowOnError(error) ==
    IF error # NoError
    THEN CASE libmyo_error_kind(error) \in {libmyo_error, libmyo_error_runtime}
                -> "runtime_error"
           [] libmyo_error_kind(error) = libmyo_error_invalid_argument
                -> "invalid_argument"
           [] libmyo_error_kind(error) = libmyo_success
                -> "none"
    ELSE "none"

\* A faulty constructor that accepts every handle.
MyoCtorThrows_Never(opaqueMyo) == FALSE

(***************************************************************************)
(* Myo wrappers.  A Myo* is the address of the object: NULL, or the k-th   *)
(* object the Hub allocated.  _myos holds the objects in push_back order.  *)
(***************************************************************************)
\* Myo::Myo: whether the constructor throws std::invalid_argument.
MyoCtorThrows(opaqueMyo) == opaqueMyo = NULL

\* A faulty lookup that finds no device.
lookupMyo_NeverFinds(myos, opaqueMyo) == NULL

\* Hub::lookupMyo: the first registry entry whose libmyoObject() is opaqueMyo.
lookupMyo(myos, opaqueMyo) ==
    IF \E i \in 1 .. Len(myos) : myos[i]._myo = opaqueMyo
    THEN myos[CHOOSE i \in 1 .. Len(myos) :
                 /\ myos[i]._myo = opaqueMyo
                 /\ \A j \in 1 .. (i - 1) : myos[j]._myo # opaqueMyo].addr
    ELSE NULL

\* A faulty addMyo that pushes two objects for the one handle.
addMyo_Twice(myos, opaqueMyo) ==
    myos \o <<[addr |-> Len(myos) + 1, _myo |-> opaqueMyo],
              [addr |-> Len(myos) + 2, _myo |-> opaqueMyo]>>

\* Hub::addMyo, when the constructor does not throw: the registry after
\* push_back of the new object.
addMyo(myos, opaqueMyo) ==
    Append(myos, [addr |-> Len(myos) + 1, _myo |-> opaqueMyo])

\* std::vector::back() of the registry.
back(myos) == myos[Len(myos)].addr

\* A faulty decoding that takes the patch and the minor component in each
\* other's place.
FirmwareVersion_Swapped(event) ==
    [firmwareVersionMajor       |-> libmyo_event_get_firmware_version(event, 0),
     firmwareVersionMinor       |-> libmyo_event_get_firmware_version(event, 2),
     firmwareVersionPatch       |-> libmyo_event_get_firmware_version(event, 1),
     firmwareVersionHardwareRev |-> libmyo_event_get_firmware_version(event, 3)]

(***************************************************************************)
(* The values the dispatcher builds for the typed callbacks.               *)
(***************************************************************************)
FirmwareVersion(event) ==
    [firmwareVersionMajor       |-> libmyo_event_get_firmware_version(event, 0),
     firmwareVersionMinor       |-> libmyo_event_get_firmware_version(event, 1),
     firmwareVersionPatch       |-> libmyo_event_get_firmware_version(event, 2),
     firmwareVersionHardwareRev |-> libmyo_event_get_firmware_version(event, 3)]

\* A faulty constructor that takes the scalar component first.
Quaternion_ScalarFirst(x, y, z, w) == [_x |-> w, _y |-> x, _z |-> y, _w |-> z]

Quaternion(x, y, z, w) == [_x |-> x, _y |-> y, _z |-> z, _w |-> w]
Vector3(x, y, z) == <<x, y, z>>
Pose(type) == [_type |-> type]

\* One call of a DeviceListener method.
Call(listener, method, myo, time, args) ==
    [listener |-> listener, method |-> method, myo |-> myo, timestamp |-> time,
     args |-> args]

\* The body of the switch of Hub::onDeviceEvent for one listener: the typed
\* callbacks, in call order.  Event types without a case invoke nothing.
TypedCallbacks(listener, event, myo) ==
    LET time == libmyo_event_get_timestamp(event)
        type == libmyo_event_get_type(event)
    IN  CASE type = libmyo_event_paired ->
               <<Call(listener, "onPair", myo, time, <<FirmwareVersion(event)>>)>>
          [] type = libmyo_event_unpaired ->
               <<Call(listener, "onUnpair", myo, time, <<>>)>>
          [] type = libmyo_event_connected ->
               <<Call(listener, "onConnect", myo, time, <<FirmwareVersion(event)>>)>>
          [] type = libmyo_event_disconnected ->
               <<Call(listener, "onDisconnect", myo, time, <<>>)>>
          [] type = libmyo_event_arm_synced ->
               <<Call(listener, "onArmSync", myo, time,
                      <<libmyo_event_get_arm(event),
                        libmyo_event_get_x_direction(event)>>)>>
          [] type = libmyo_event_arm_unsynced ->
               <<Call(listener, "onArmUnsync", myo, time, <<>>)>>
          [] type = libmyo_event_unlocked ->
               <<Call(listener, "onUnlock", myo, time, <<>>)>>
          [] type = libmyo_event_locked ->
               <<Call(listener, "onLock", myo, time, <<>>)>>
          [] type = libmyo_event_orientation ->
               <<Call(listener, "onOrientationData", myo, time,
                      <<Quaternion(libmyo_event_get_orientation(event, 0),
                                   libmyo_event_get_orientation(event, 1),
                                   libmyo_event_get_orientation(event, 2),
                                   libmyo_event_get_orientation(event, 3))>>),
                 Call(listener, "onAccelerometerData", myo, time,
                      <<Vector3(libmyo_event_get_accelerometer(event, 0),
                                libmyo_event_get_accelerometer(event, 1),
                                libmyo_event_get_accelerometer(event, 2))>>),
                 Call(listener, "onGyroscopeData", myo, time,
                      <<Vector3(libmyo_event_get_gyroscope(event, 0),
                                libmyo_event_get_gyroscope(event, 1),
                                libmyo_event_get_gyroscope(event, 2))>>)>>
          [] type = libmyo_event_pose ->
               <<Call(listener, "onPose", myo, time,
                      <<Pose(libmyo_event_get_pose(event))>>)>>
          [] type = libmyo_event_rssi ->
               <<Call(listener, "onRssi", myo, time, <<libmyo_event_get_rssi(event)>>)>>
          [] type = libmyo_event_emg ->
               <<Call(listener, "onEmgData", myo, time,
                      <<[sensor \in 0 .. 7 |-> libmyo_event_get_emg(event, sensor)]>>)>>
          [] OTHER -> <<>>

\* A faulty iteration that calls onOpaqueEvent after the switch.
ListenerCallbacks_OpaqueLast(listener, event, myo) ==
    TypedCallbacks(listener, event, myo)
        \o <<Call(listener, "onOpaqueEvent", NULL, 0, <<event>>)>>

\* A faulty iteration whose switch runs twice.
ListenerCallbacks_Twice(listener, event, myo) ==
    <<Call(listener, "onOpaqueEvent", NULL, 0, <<event>>)>>
        \o TypedCallbacks(listener, event, myo)
        \o TypedCallbacks(listener, event, myo)

\* One iteration of the listener loop: onOpaqueEvent, then the switch.
ListenerCallbacks(listener, event, myo) ==
    <<Call(listener, "onOpaqueEvent", NULL, 0, <<event>>)>>
        \o TypedCallbacks(listener, event, myo)

RECURSIVE ForEachListener_Nested(_, _, _, _)
\* A faulty listener loop that makes the typed calls of a listener after the
\* listeners behind it have been served.
ForEachListener_Nested(listeners, i, event, myo) ==
    IF i > Len(listeners) THEN <<>>
    ELSE <<Call(listeners[i], "onOpaqueEvent", NULL, 0, <<event>>)>>
             \o ForEachListener_Nested(listeners, i + 1, event, myo)
             \o TypedCallbacks(listeners[i], event, myo)

RECURSIVE ForEachListener_Reversed(_, _, _, _)
\* A faulty listener loop that walks the list from its end.
ForEachListener_Reversed(listeners, i, event, myo) ==
    IF i > Len(listeners) THEN <<>>
    ELSE ForEachListener_Reversed(listeners, i + 1, event, myo)
             \o ListenerCallbacks(listeners[i], event, myo)

RECURSIVE ForEachListener(_, _, _, _)
\* The listener loop from iterator position i to the end of the list.
ForEachListener(listeners, i, event, myo) ==
    IF i > Len(listeners) THEN <<>>
    ELSE ListenerCallbacks(listeners[i], event, myo)
             \o ForEachListener(listeners, i + 1, event, myo)

\* A faulty onDeviceEvent that erases the device of an unpaired event from the
\* registry once the listeners have been called.
onDeviceEvent_ForgetsUnpaired(myos, listeners, event) ==
    LET opaqueMyo == libmyo_event_get_myo(event)
        found == lookupMyo(myos, opaqueMyo)
        adds == found = NULL /\ libmyo_event_get_type(event) = libmyo_event_paired
    IN  IF adds /\ MyoCtorThrows(opaqueMyo)
        THEN [myos |-> myos, calls |-> <<>>, thrown |-> "invalid_argument"]
        ELSE LET after == IF adds THEN addMyo(myos, opaqueMyo) ELSE myos
                 myo == IF adds THEN back(after) ELSE found
             IN  IF myo = NULL
                 THEN [myos |-> after, calls |-> <<>>, thrown |-> "none"]
                 ELSE [myos |-> IF libmyo_event_get_type(event) = libmyo_event_unpaired
                                THEN SelectSeq(after, LAMBDA m : m._myo # opaqueMyo)
                                ELSE after,
                       calls |-> ForEachListener(listeners, 1, event, myo),
                       thrown |-> "none"]

\* A faulty onDeviceEvent that registers every unknown handle, whatever the
\* type of the event.
onDeviceEvent_AnyType(myos, listeners, event) ==
    LET opaqueMyo == libmyo_event_get_myo(event)
        found == lookupMyo(myos, opaqueMyo)
        adds == found = NULL
    IN  IF adds /\ MyoCtorThrows(opaqueMyo)
        THEN [myos |-> myos, calls |-> <<>>, thrown |-> "invalid_argument"]
        ELSE LET after == IF adds THEN addMyo(myos, opaqueMyo) ELSE myos
                 myo == IF adds THEN back(after) ELSE found
             IN  [myos |-> after,
                  calls |-> ForEachListener(listeners, 1, event, myo),
                  thrown |-> "none"]

\* Hub::onDeviceEvent on a registry and a listener list: the registry after
\* it, the calls made on the listeners, and whether addMyo threw.
onDeviceEvent(myos, listeners, event) ==
    LET opaqueMyo == libmyo_event_get_myo(event)
        found == lookupMyo(myos, opaqueMyo)
        adds == found = NULL /\ libmyo_event_get_type(event) = libmyo_event_paired
    IN  IF adds /\ MyoCtorThrows(opaqueMyo)
        THEN [myos |-> myos, calls |-> <<>>, thrown |-> "invalid_argument"]
        ELSE LET after == IF adds THEN addMyo(myos, opaqueMyo) ELSE myos
                 myo == IF adds THEN back(after) ELSE found
             IN  IF myo = NULL
                 THEN [myos |-> after, calls |-> <<>>, thrown |-> "none"]
                 ELSE [myos |-> after,
                       calls |-> ForEachListener(listeners, 1, event, myo),
                       thrown |-> "none"]

\* A faulty handler of waitForMyo that lets the poll go on after a paired
\* event.
waitForMyoHandler_Continues(myos, event) ==
    IF libmyo_event_get_type(event) = libmyo_event_paired
    THEN IF MyoCtorThrows(libmyo_event_get_myo(event))
         THEN [myos |-> myos, result |-> libmyo_handler_stop,
               thrown |-> "invalid_argument"]
         ELSE [myos |-> addMyo(myos, libmyo_event_get_myo(event)),
               result |-> libmyo_handler_continue, thrown |-> "none"]
    ELSE [myos |-> myos, result |-> libmyo_handler_continue, thrown |-> "none"]

\* local::handler of Hub::waitForMyo: a paired event adds a Myo and stops
\* the poll, every other event is skipped.
waitForMyoHandler(myos, event) ==
    IF libmyo_event_get_type(event) = libmyo_event_paired
    THEN IF MyoCtorThrows(libmyo_event_get_myo(event))
         THEN [myos |-> myos, result |-> libmyo_handler_stop,
               thrown |-> "invalid_argument"]
         ELSE [myos |-> addMyo(myos, libmyo_event_get_myo(event)),
               result |-> libmyo_handler_stop, thrown |-> "none"]
    ELSE [myos |-> myos, result |-> libmyo_handler_continue, thrown |-> "none"]

(***************************************************************************)
(* MAC address utilities of libmyo.  The library is closed: the two        *)
(* functions are modelled from their declarations, that is a string of six *)
(* groups of two hex digits separated by hyphens, most significant byte    *)
(* first.  A string is a sequence of characters.  A 48-bit address is the  *)
(* pair of its two 24-bit halves, high half first, which keeps every       *)
(* number within the 32 bits of the integers of TLC: address m is          *)
(* <<m \div 2^24, m % 2^24>>, and 0 is <<0, 0>>.                            *)
(***************************************************************************)
HexDigits == <<"0", "1", "2", "3", "4", "5", "6", "7", "8", "9",
               "A", "B", "C", "D", "E", "F">>
LowerHexDigits == <<"0", "1", "2", "3", "4", "5", "6", "7", "8", "9",
                    "a", "b", "c", "d", "e", "f">>
IsHexDigit(c) == \E v \in 0 .. 15 : c \in {HexDigits[v + 1], LowerHexDigits[v + 1]}
HexValue(c) == CHOOSE v \in 0 .. 15 : c \in {HexDigits[v + 1], LowerHexDigits[v + 1]}

\* Two to the power n.
RECURSIVE Pow2(_)
Pow2(n) == IF n = 0 THEN 1 ELSE 2 * Pow2(n - 1)

\* Byte i of the address, byte 0 being the most significant.
MacByte(address, i) == (address[1 + (i \div 3)] \div Pow2(8 * (2 - (i % 3)))) % 256

libmyo_mac_address_to_string(address) ==
    [p \in 1 .. 17 |->
        IF p % 3 = 0
        THEN "-"
        ELSE LET byte == MacByte(address, (p - 1) \div 3)
             IN  IF p % 3 = 1 THEN HexDigits[(byte \div 16) + 1]
                              ELSE HexDigits[(byte % 16) + 1]]

\* The string has the format 00-00-00-00-00-00.
MatchesMacFormat(string) ==
    /\ Len(string) = 17
    /\ \A p \in 1 .. 17 :
         IF p \in {3, 6, 9, 12, 15} THEN string[p] = "-" ELSE IsHexDigit(string[p])

\* The value of groups groups of a string in the format, the first of them
\* being group first (1 to 6) and the most significant.
RECURSIVE MacValue(_, _, _)
MacValue(string, first, groups) ==
    IF groups = 0
    THEN 0
    ELSE LET g == first + groups - 1
         IN  MacValue(string, first, groups - 1) * 256
               + HexValue(string[3 * g - 2]) * 16 + HexValue(string[3 * g - 1])

\* A faulty parser that takes the last three groups for the high half.
string_to_mac_address_SwappedHalves(string) ==
    IF MatchesMacFormat(string)
    THEN <<MacValue(string, 4, 3), MacValue(string, 1, 3)>>
    ELSE <<0, 0>>

libmyo_string_to_mac_address(string) ==
    IF MatchesMacFormat(string)
    THEN <<MacValue(string, 1, 3), MacValue(string, 4, 3)>>
    ELSE <<0, 0>>

(***************************************************************************)
(* Vector3 and Quaternion arithmetic.  The component type T is a           *)
(* floating-point type; the components used are integers small enough for  *)
(* every product and sum to be exact, and std::sqrt is applied to perfect  *)
(* squares only, so that the integers compute what the floats compute.     *)
(***************************************************************************)
abs(x) == IF x < 0 THEN -x ELSE x

\* std::sqrt of a perfect square.
sqrt(n) == CHOOSE r \in 0 .. n : r * r <= n /\ (r + 1) * (r + 1) > n
IsSquare(n) == sqrt(n) * sqrt(n) = n

\* Vector3::dot and Vector3::cross.
dot(lhs, rhs) == lhs[1] * rhs[1] + lhs[2] * rhs[2] + lhs[3] * rhs[3]
cross(lhs, rhs) ==
    Vector3(lhs[2] * rhs[3] - lhs[3] * rhs[2],
            lhs[3] * rhs[1] - lhs[1] * rhs[3],
            lhs[1] * rhs[2] - lhs[2] * rhs[1])

\* Quaternion::Quaternion(): the multiplicative identity.
QuaternionIdentity == Quaternion(0, 0, 0, 1)

\* A faulty product with a wrong sign in the x component.
operator_mul_SignSlip(lhs, rhs) ==
    Quaternion(
        lhs._w * rhs._x + lhs._x * rhs._w + lhs._y * rhs._z + lhs._z * rhs._y,
        lhs._w * rhs._y - lhs._x * rhs._z + lhs._y * rhs._w + lhs._z * rhs._x,
        lhs._w * rhs._z + lhs._x * rhs._y - lhs._y * rhs._x + lhs._z * rhs._w,
        lhs._w * rhs._w - lhs._x * rhs._x - lhs._y * rhs._y - lhs._z * rhs._z)

\* Quaternion::operator*.
operator_mul(lhs, rhs) ==
    Quaternion(
        lhs._w * rhs._x + lhs._x * rhs._w + lhs._y * rhs._z - lhs._z * rhs._y,
        lhs._w * rhs._y - lhs._x * rhs._z + lhs._y * rhs._w + lhs._z * rhs._x,
        lhs._w * rhs._z + lhs._x * rhs._y - lhs._y * rhs._x + lhs._z * rhs._w,
        lhs._w * rhs._w - lhs._x * rhs._x - lhs._y * rhs._y - lhs._z * rhs._z)

\* A faulty conjugate that keeps the sign of z.
conjugate_KeepZ(q) == Quaternion(-q._x, -q._y, q._z, q._w)

\* Quaternion::conjugate.
conjugate(q) == Quaternion(-q._x, -q._y, -q._z, q._w)

\* rotate(const Quaternion<T>& quat, const Vector3<T>& vec).
rotate_quat_vec(quat, vec) ==
    LET qvec == Quaternion(vec[1], vec[2], vec[3], 0)
        result == operator_mul(operator_mul(quat, qvec), conjugate(quat))
    IN  Vector3(result._x, result._y, result._z)

\* rotate(const Vector3<T>& from, const Vector3<T>& to).  k is positive where
\* it divides, so that cosTheta / k <= -1 is cosTheta <= -k.
rotate_from_to(from_, to_) ==
    LET cosTheta == dot(from_, to_)
        k == sqrt(dot(from_, from_) * dot(to_, to_))
    IN  IF cosTheta >= 1
        THEN QuaternionIdentity
        ELSE IF k <= 0
             THEN QuaternionIdentity
             ELSE IF cosTheta <= -k
                  THEN LET xAxis == Vector3(1, 0, 0)
                           yAxis == Vector3(0, 1, 0)
                           cross_ == cross(from_, IF abs(dot(from_, xAxis)) < 1
                                                  THEN xAxis ELSE yAxis)
                       IN  Quaternion(cross_[1], cross_[2], cross_[3], 0)
                  ELSE LET cross_ == cross(from_, to_)
                       IN  Quaternion(cross_[1], cross_[2], cross_[3], k + cosTheta)

(***************************************************************************)
(* State.                                                                  *)
(***************************************************************************)
VARIABLES
    pc,           \* "start": no Hub yet; "idle": between calls; "inrun": inside
                  \* libmyo_run; "terminate": std::terminate was called
    _hub,         \* Hub::_hub, NULL before libmyo_init_hub succeeded
    _myos,        \* Hub::_myos
    _listeners,   \* Hub::_listeners
    op,           \* the wrapper call in progress, or the last one made
    timeout_ms,   \* waitForMyo's argument
    prevSize,     \* waitForMyo's local
    duration_ms,  \* the duration passed to the libmyo_run in progress
    polls,        \* libmyo_run calls made by the call in progress
    nEvents,      \* events the libmyo_run in progress handed to onDeviceEvent
    handlerResult,\* what the handler returned for the last of them
    abi,          \* <<result code>> of the last ABI call the call made, once it
                  \* returned and until the next one hands an event to a handler
    _error,       \* ThrowOnError::_error: the details that ABI call stored
    freed,        \* libmyo_free_error_details calls made for them
    thrown,       \* the exception the call raised to its caller
    ret,          \* <<v>> once waitForMyo returned v
    event,        \* the last event a handler was given
    calls,        \* the listener calls made for it
    order,        \* <<event number, listener>> of every listener the
                  \* libmyo_run in progress has visited, in call order
    sizeBefore,   \* size of the registry when the handler was entered
    listenersBefore, \* the listener list when the handler was entered
    sawPair,      \* a paired event was produced during the waitForMyo call
    registered,   \* the listeners in the order addListener registered them
    deleted,      \* the Myo objects deleted so far, in order
    shutdowns,    \* the hub handles passed to libmyo_shutdown_hub so far
    step,         \* how far the calculation with the value types has got
    mac,          \* a MAC address
    macString,    \* its string, or a string handed to the parser
    macParsed,    \* what libmyo_string_to_mac_address returned for it
    qa, qb, qc,   \* three quaternions
    qleft,        \* (qa * qb) * qc
    qright,       \* qa * (qb * qc)
    qconj,        \* qa.conjugate()
    qprod,        \* qa * qa.conjugate()
    from,         \* a vector
    to,           \* another
    rotation,     \* rotate(from, to)
    rotated,      \* rotate(rotation, from)
    loop,         \* how far the listener loop with re-entrant listeners has got
    loopI,        \* its iterator I, as a slot number of the block it points into
    loopIE,       \* its cached end iterator IE
    storage,      \* the slots of that block
    capacity,     \* _listeners.capacity()
    reallocated,  \* push_back has moved _listeners to another block
    received,     \* the listeners the loop has called, in order
    removed,      \* the listeners the callbacks have removed
    pastEnd       \* the loop has dereferenced an iterator outside _listeners

\* The variables of the Hub, and those of the value types.
programVars == <<pc, _hub, _myos, _listeners, op, timeout_ms, prevSize, duration_ms, polls,
                 nEvents, handlerResult, abi, _error, freed, thrown, ret, event, calls, order,
                 sizeBefore, listenersBefore, sawPair, registered, deleted, shutdowns>>
macVars == <<mac, macString, macParsed>>
quatVars == <<qa, qb, qc, qleft, qright, qconj, qprod>>
rotateVars == <<from, to, rotation, rotated>>
loopVars == <<loop, loopI, loopIE, storage, capacity, reallocated, received, removed, pastEnd>>
valueVars == <<step, macVars, quatVars, rotateVars, loopVars>>

vars == <<programVars, valueVars>>

hubVars == <<_hub, _myos, _listeners, registered>>
dtorVars == <<deleted, shutdowns>>
waitVars == <<timeout_ms, prevSize>>
runVars == <<duration_ms, polls, nEvents, handlerResult>>

\* Arguments the callers pass.
Durations == {20}
Timeouts == {0, 500}
MyoMethods == {"vibrate", "requestRssi", "requestBatteryLevel", "unlock", "lock",
               "notifyUserAction", "setStreamEmg"}

Min(a, b) == IF a < b THEN a ELSE b

\* An ABI call returned result and stored error; the ThrowOnError temporary
\* was then destroyed.
AbiResult(result, error) ==
    /\ abi' = <<result>>
    /\ _error' = error
    /\ freed' = Frees(error)

AbiReturns(result, error) ==
    /\ AbiResult(result, error)
    /\ thrown' = ThrowOnError(error)

\* The ABI call in progress has not returned.
NoAbiReturn ==
    /\ abi' = <<>>
    /\ _error' = NoError
    /\ freed' = 0

\* What is observed of a call, as it is when the call begins.
Observe(name) ==
    /\ op' = name
    /\ ret' = <<>>
    /\ event' = NoEvent
    /\ calls' = <<>>
    /\ order' = <<>>
    /\ sizeBefore' = Len(_myos)
    /\ listenersBefore' = _listeners
    /\ sawPair' = FALSE

\* A call that does not poll has none of the locals of the calls that do.
NoPoll ==
    /\ timeout_ms' = 0
    /\ prevSize' = 0
    /\ duration_ms' = 0
    /\ polls' = 0
    /\ nEvents' = 0
    /\ handlerResult' = libmyo_handler_continue

\* No MAC address is being converted.
NoMac ==
    /\ mac = <<0, 0>>
    /\ macString = <<>>
    /\ macParsed = <<0, 0>>

\* No quaternion is being multiplied.
NoQuaternions ==
    /\ qa = QuaternionIdentity
    /\ qb = QuaternionIdentity
    /\ qc = QuaternionIdentity
    /\ qleft = QuaternionIdentity
    /\ qright = QuaternionIdentity
    /\ qconj = QuaternionIdentity
    /\ qprod = QuaternionIdentity

\* No vector is being rotated.
NoVectors ==
    /\ from = Vector3(0, 0, 0)
    /\ to = Vector3(0, 0, 0)
    /\ rotation = QuaternionIdentity
    /\ rotated = Vector3(0, 0, 0)

\* No listener loop is being run iteration by iteration.
NoLoop ==
    /\ loop = "none"
    /\ loopI = 0
    /\ loopIE = 0
    /\ storage = <<>>
    /\ capacity = 0
    /\ reallocated = FALSE
    /\ received = <<>>
    /\ removed = {}
    /\ pastEnd = FALSE

\* The program before it constructs a Hub.
NoHub ==
    /\ pc = "start"
    /\ _hub = NULL
    /\ _myos = <<>>
    /\ _listeners = <<>>
    /\ op = "none"
    /\ timeout_ms = 0
    /\ prevSize = 0
    /\ duration_ms = 0
    /\ polls = 0
    /\ nEvents = 0
    /\ handlerResult = libmyo_handler_continue
    /\ abi = <<>>
    /\ _error = NoError
    /\ freed = 0
    /\ thrown = "none"
    /\ ret = <<>>
    /\ event = NoEvent
    /\ calls = <<>>
    /\ order = <<>>
    /\ sizeBefore = 0
    /\ listenersBefore = <<>>
    /\ sawPair = FALSE
    /\ registered = <<>>
    /\ deleted = <<>>
    /\ shutdowns = <<>>

Init ==
    /\ NoHub
    /\ NoLoop
    /\ step = "none"
    /\ NoMac
    /\ NoQuaternions
    /\ NoVectors

(***************************************************************************)
(* Hub::Hub: libmyo_init_hub answers result.  When ThrowOnError throws no  *)
(* Hub exists and the program may try again.                               *)
(***************************************************************************)
HubCtor(result, error) ==
    /\ pc = "start"
    /\ Observe("Hub")
    /\ UNCHANGED dtorVars
    /\ UNCHANGED valueVars
    /\ AbiReturns(result, error)
    /\ IF thrown' = "none"
       THEN /\ pc' = "idle"
            /\ _hub' = 1
       ELSE /\ pc' = "start"
            /\ _hub' = NULL
    /\ _myos' = <<>>
    /\ _listeners' = <<>>
    /\ registered' = <<>>
    /\ NoPoll

(***************************************************************************)
(* Hub::~Hub, run between two calls: it deletes the Myo objects of the     *)
(* registry and shuts the hub down, ignoring the result.  Nothing can be   *)
(* called on the Hub afterwards.                                           *)
(***************************************************************************)
\* A faulty loop that stops before the last entry.
deleteAll_ButBack(myos) == [i \in 1 .. (Len(myos) - 1) |-> myos[i].addr]

\* The loop of the destructor: the objects it deletes, in order.
deleteAll(myos) == [i \in 1 .. Len(myos) |-> myos[i].addr]

HubDtor ==
    /\ pc = "idle"
    /\ pc' = "destroyed"
    /\ Observe("~Hub")
    /\ deleted' = deleted \o deleteAll(_myos)
    /\ shutdowns' = Append(shutdowns, _hub)
    /\ NoAbiReturn
    /\ thrown' = "none"
    /\ NoPoll
    /\ UNCHANGED hubVars
    /\ UNCHANGED valueVars

(***************************************************************************)
(* Hub::addListener, Hub::removeListener.                                  *)
(***************************************************************************)
\* std::find(...) != end().
Contains(seq, x) == \E i \in 1 .. Len(seq) : seq[i] = x

\* vector::erase at the first position holding x.
EraseFirst(seq, x) ==
    LET I == CHOOSE i \in 1 .. Len(seq) :
                 seq[i] = x /\ \A j \in 1 .. (i - 1) : seq[j] # x
    IN  SubSeq(seq, 1, I - 1) \o SubSeq(seq, I + 1, Len(seq))

\* A faulty addListener without the std::find test.
addListenerTo_NoFind(listeners, listener) == Append(listeners, listener)

\* The listener list after Hub::addListener(listener).
addListenerTo(listeners, listener) ==
    IF Contains(listeners, listener) THEN listeners ELSE Append(listeners, listener)

\* A faulty removeListener that erases at begin() instead of at the
\* position std::find returned.
removeListenerFrom_Begin(listeners, listener) ==
    IF ~Contains(listeners, listener) THEN listeners
    ELSE SubSeq(listeners, 2, Len(listeners))

\* The listener list after Hub::removeListener(listener).
removeListenerFrom(listeners, listener) ==
    IF ~Contains(listeners, listener) THEN listeners ELSE EraseFirst(listeners, listener)

addListener(listener) ==
    /\ pc = "idle"
    /\ Observe("addListener")
    /\ UNCHANGED dtorVars
    /\ UNCHANGED valueVars
    /\ _listeners' = addListenerTo(_listeners, listener)
    /\ registered' = IF Contains(registered, listener) THEN registered
                     ELSE Append(registered, listener)
    /\ NoAbiReturn
    /\ thrown' = "none"
    /\ NoPoll
    /\ UNCHANGED <<pc, _hub, _myos>>

removeListener(listener) ==
    /\ pc = "idle"
    /\ Observe("removeListener")
    /\ UNCHANGED dtorVars
    /\ UNCHANGED valueVars
    /\ _listeners' = removeListenerFrom(_listeners, listener)
    /\ registered' = SelectSeq(registered, LAMBDA l : l # listener)
    /\ NoAbiReturn
    /\ thrown' = "none"
    /\ NoPoll
    /\ UNCHANGED <<pc, _hub, _myos>>

(***************************************************************************)
(* Calls that make one ABI call and let ThrowOnError convert its result:   *)
(* Hub::setLockingPolicy and the operations of a Myo.                      *)
(***************************************************************************)
setLockingPolicy(result, error) ==
    /\ pc = "idle"
    /\ Observe("setLockingPolicy")
    /\ UNCHANGED dtorVars
    /\ UNCHANGED valueVars
    /\ AbiReturns(result, error)
    /\ NoPoll
    /\ UNCHANGED <<pc, hubVars>>

MyoCall(method, result, error) ==
    /\ pc = "idle"
    /\ _myos # <<>>
    /\ Observe(method)
    /\ UNCHANGED dtorVars
    /\ UNCHANGED valueVars
    /\ AbiReturns(result, error)
    /\ NoPoll
    /\ UNCHANGED <<pc, hubVars>>

(***************************************************************************)
(* Hub::run, Hub::runOnce and Hub::waitForMyo up to their call of          *)
(* libmyo_run, which then produces events one at a time.                   *)
(***************************************************************************)
EnterLibmyoRun(duration) ==
    /\ pc' = "inrun"
    /\ duration_ms' = duration
    /\ nEvents' = 0
    /\ handlerResult' = libmyo_handler_continue
    /\ NoAbiReturn
    /\ thrown' = "none"

run(duration) ==
    /\ pc = "idle"
    /\ Observe("run")
    /\ UNCHANGED dtorVars
    /\ UNCHANGED valueVars
    /\ EnterLibmyoRun(duration)
    /\ polls' = 1
    /\ timeout_ms' = 0
    /\ prevSize' = 0
    /\ UNCHANGED hubVars

runOnce(duration) ==
    /\ pc = "idle"
    /\ Observe("runOnce")
    /\ UNCHANGED dtorVars
    /\ UNCHANGED valueVars
    /\ EnterLibmyoRun(duration)
    /\ polls' = 1
    /\ timeout_ms' = 0
    /\ prevSize' = 0
    /\ UNCHANGED hubVars

\* The duration waitForMyo passes to libmyo_run.
WaitDuration(timeout) == IF timeout # 0 THEN timeout ELSE 1000

waitForMyo(timeout) ==
    /\ pc = "idle"
    /\ Observe("waitForMyo")
    /\ UNCHANGED dtorVars
    /\ UNCHANGED valueVars
    /\ timeout_ms' = timeout
    /\ prevSize' = Len(_myos)
    /\ EnterLibmyoRun(WaitDuration(timeout))
    /\ polls' = 1
    /\ UNCHANGED hubVars

(***************************************************************************)
(* libmyo_run produces an event and calls the handler it was given.        *)
(***************************************************************************)
\* The listeners visited by the poll so far, followed by those one more
\* event visits: each listener's first call for the event, in call order.
Record(sofar, n, made) ==
    LET first == SelectSeq(made, LAMBDA c : c.method = "onOpaqueEvent")
    IN  sofar \o [k \in 1 .. Len(first) |-> <<n, first[k].listener>>]

\* The handler was entered with this event.
Enter(e) ==
    /\ pc = "inrun"
    /\ handlerResult = libmyo_handler_continue
    /\ event' = e
    /\ NoAbiReturn
    /\ sizeBefore' = Len(_myos)
    /\ listenersBefore' = _listeners
    /\ sawPair' = (sawPair \/ (op = "waitForMyo"
                                 /\ libmyo_event_get_type(e) = libmyo_event_paired))

\* An exception leaves the handler and crosses the frames of libmyo_run: it
\* reaches the caller of the Hub, or the runtime calls std::terminate.
Unwind(exception) ==
    /\ pc' \in {"idle", "terminate"}
    /\ thrown' = exception

\* local::handler of Hub::run and of Hub::runOnce, which returns answer.
DispatchHandler(e, answer) ==
    LET out == onDeviceEvent(_myos, _listeners, e)
    IN  /\ Enter(e)
        /\ UNCHANGED dtorVars
        /\ UNCHANGED valueVars
        /\ nEvents < MaxEvents
        /\ nEvents' = nEvents + 1
        /\ Len(out.myos) <= MaxMyos
        /\ _myos' = out.myos
        /\ calls' = out.calls
        /\ order' = Record(order, nEvents + 1, out.calls)
        /\ IF out.thrown # "none"
           THEN /\ Unwind(out.thrown)
                /\ UNCHANGED handlerResult
           ELSE /\ handlerResult' = answer
                /\ UNCHANGED <<pc, thrown>>
        /\ UNCHANGED <<_hub, _listeners, registered, op, waitVars, duration_ms, polls,
                       ret>>

\* A faulty handler of run that answers stop.
runHandler_Stop(e) ==
    /\ op = "run"
    /\ DispatchHandler(e, libmyo_handler_stop)

runHandler(e) ==
    /\ op = "run"
    /\ DispatchHandler(e, libmyo_handler_continue)

\* A faulty handler of runOnce that answers continue.
runOnceHandler_Continue(e) ==
    /\ op = "runOnce"
    /\ DispatchHandler(e, libmyo_handler_continue)

\* A faulty handler of runOnce that answers stop only for an event that
\* reached the listener loop.
runOnceHandler_StopsIfDispatched(e) ==
    /\ op = "runOnce"
    /\ DispatchHandler(e, IF \/ lookupMyo(_myos, libmyo_event_get_myo(e)) # NULL
                             \/ libmyo_event_get_type(e) = libmyo_event_paired
                          THEN libmyo_handler_stop
                          ELSE libmyo_handler_continue)

runOnceHandler(e) ==
    /\ op = "runOnce"
    /\ DispatchHandler(e, libmyo_handler_stop)

\* A faulty handler of waitForMyo that also hands the event to the listeners.
waitHandler_Dispatches(e) ==
    LET out == waitForMyoHandler(_myos, e)
        made == IF out.thrown = "none" /\ lookupMyo(out.myos, libmyo_event_get_myo(e)) # NULL
                THEN ForEachListener(_listeners, 1, e,
                                     lookupMyo(out.myos, libmyo_event_get_myo(e)))
                ELSE <<>>
    IN  /\ op = "waitForMyo"
        /\ Enter(e)
        /\ UNCHANGED dtorVars
        /\ UNCHANGED valueVars
        /\ Len(out.myos) <= MaxMyos
        /\ _myos' = out.myos
        /\ calls' = made
        /\ UNCHANGED order
        /\ IF out.thrown # "none"
           THEN /\ Unwind(out.thrown)
                /\ UNCHANGED handlerResult
           ELSE /\ handlerResult' = out.result
                /\ UNCHANGED <<pc, thrown>>
        /\ UNCHANGED <<_hub, _listeners, registered, op, waitVars, duration_ms, polls,
                       nEvents, ret>>

waitHandler(e) ==
    LET out == waitForMyoHandler(_myos, e)
    IN  /\ op = "waitForMyo"
        /\ Enter(e)
        /\ UNCHANGED dtorVars
        /\ UNCHANGED valueVars
        /\ Len(out.myos) <= MaxMyos
        /\ _myos' = out.myos
        /\ calls' = <<>>
        /\ UNCHANGED order
        /\ IF out.thrown # "none"
           THEN /\ Unwind(out.thrown)
                /\ UNCHANGED handlerResult
           ELSE /\ handlerResult' = out.result
                /\ UNCHANGED <<pc, thrown>>
        /\ UNCHANGED <<_hub, _listeners, registered, op, waitVars, duration_ms, polls,
                       nEvents, ret>>

(***************************************************************************)
(* libmyo_run returns result: the duration elapsed, a handler answered     *)
(* stop, or the call failed.                                               *)
(***************************************************************************)
\* The event handed to the handler is gone once libmyo_run has returned.
Leave ==
    /\ event' = NoEvent
    /\ calls' = <<>>
    /\ order' = <<>>
    /\ sizeBefore' = Len(_myos)
    /\ listenersBefore' = _listeners

\* A faulty loop condition that does not look at the timeout.
WaitAgain_IgnoresTimeout(timeout, myos, size) == Len(myos) <= size

\* The condition of waitForMyo's do-while loop.
WaitAgain(timeout, myos, size) == timeout = 0 /\ Len(myos) <= size

\* A faulty result: the front of the registry instead of its back.
WaitResult_Front(myos, size) == IF Len(myos) <= size THEN NULL ELSE myos[1].addr

\* What waitForMyo returns after the loop.
WaitResult(myos, size) == IF Len(myos) <= size THEN NULL ELSE back(myos)

runReturns(result, error) ==
    /\ pc = "inrun"
    /\ op \in {"run", "runOnce"}
    /\ AbiReturns(result, error)
    /\ pc' = "idle"
    /\ Leave
    /\ UNCHANGED dtorVars
    /\ UNCHANGED valueVars
    /\ UNCHANGED <<hubVars, op, waitVars, runVars, ret, sawPair>>

\* A faulty waitForMyo that swallows the failure of libmyo_run and lets the
\* loop call it again.
waitReturns_Retry(result, error) ==
    /\ pc = "inrun"
    /\ op = "waitForMyo"
    /\ AbiResult(result, error)
    /\ thrown' = "none"
    /\ IF WaitAgain(timeout_ms, _myos, prevSize)
       THEN /\ pc' = "inrun"
            /\ polls' = Min(polls + 1, MaxPolls)
            /\ nEvents' = 0
            /\ handlerResult' = libmyo_handler_continue
            /\ UNCHANGED <<duration_ms, ret>>
       ELSE /\ pc' = "idle"
            /\ ret' = <<WaitResult(_myos, prevSize)>>
            /\ UNCHANGED runVars
    /\ Leave
    /\ UNCHANGED dtorVars
    /\ UNCHANGED valueVars
    /\ UNCHANGED <<hubVars, op, waitVars, sawPair>>

waitReturns(result, error) ==
    /\ pc = "inrun"
    /\ op = "waitForMyo"
    /\ AbiReturns(result, error)
    /\ IF thrown' # "none"
       THEN /\ pc' = "idle"
            /\ UNCHANGED <<runVars, ret>>
       ELSE IF WaitAgain(timeout_ms, _myos, prevSize)
            THEN \* the loop calls libmyo_run again
                 /\ pc' = "inrun"
                 /\ polls' = Min(polls + 1, MaxPolls)
                 /\ nEvents' = 0
                 /\ handlerResult' = libmyo_handler_continue
                 /\ UNCHANGED <<duration_ms, ret>>
            ELSE /\ pc' = "idle"
                 /\ ret' = <<WaitResult(_myos, prevSize)>>
                 /\ UNCHANGED runVars
    /\ Leave
    /\ UNCHANGED dtorVars
    /\ UNCHANGED valueVars
    /\ UNCHANGED <<hubVars, op, waitVars, sawPair>>

Next ==
    \/ HubDtor
    \/ \E result \in libmyo_result_t : \E error \in out_error(result) :
           HubCtor(result, error)
    \/ \E listener \in Listeners : addListener(listener)
    \/ \E listener \in Listeners : removeListener(listener)
    \/ \E result \in libmyo_result_t : \E error \in out_error(result) :
           setLockingPolicy(result, error)
    \/ \E method \in MyoMethods, result \in libmyo_result_t :
           \E error \in out_error(result) : MyoCall(method, result, error)
    \/ \E duration \in Durations : run(duration)
    \/ \E duration \in Durations : runOnce(duration)
    \/ \E timeout \in Timeouts : waitForMyo(timeout)
    \/ \E e \in Events : runHandler(e)
    \/ \E e \in Events : runOnceHandler(e)
    \/ \E e \in Events : waitHandler(e)
    \/ \E result \in libmyo_result_t : \E error \in out_error(result) :
           runReturns(result, error)
    \/ \E result \in libmyo_result_t : \E error \in out_error(result) :
           waitReturns(result, error)

Spec == Init /\ [][Next]_vars

(***************************************************************************)
(* A caller of the MAC address utilities: it formats an address and parses *)
(* the string back, or parses a string that is not in the format.          *)
(***************************************************************************)
\* The values a byte of an address takes.
NumByteValues == 3
ByteTable == <<0, 255, 171, 18, 52, 9>>
ByteValues == {ByteTable[i] : i \in 1 .. Min(NumByteValues, Len(ByteTable))}

MacAddresses ==
    {<<(b[1] * 256 + b[2]) * 256 + b[3], (b[4] * 256 + b[5]) * 256 + b[6]>> :
        b \in [1 .. 6 -> ByteValues]}

\* The positions of the hex digits in the format.
DigitPositions == {p \in 1 .. 17 : p % 3 # 0}

\* Strings that are not in the format: too short, too long, empty, with
\* another separator, with a character that is no hex digit, with a hyphen
\* in the place of a digit, and without separators.
Malformed(string) ==
    {SubSeq(string, 1, 16), Append(string, "0"), <<>>,
     SelectSeq(string, LAMBDA c : c # "-")}
      \cup {[string EXCEPT ![p] = ":"] : p \in {3, 6, 9, 12, 15}}
      \cup {[string EXCEPT ![p] = "G"] : p \in DigitPositions}
      \cup {[string EXCEPT ![p] = "-"] : p \in DigitPositions}

MalformedStrings ==
    UNION {Malformed(libmyo_mac_address_to_string(<<h, h>>)) :
              h \in {0, 11259375, 16777215}}

MacInit ==
    /\ NoHub
    /\ NoLoop
    /\ NoQuaternions
    /\ NoVectors
    /\ macParsed = <<0, 0>>
    /\ \/ /\ step = "address"
          /\ mac \in MacAddresses
          /\ macString = <<>>
       \/ /\ step = "string"
          /\ mac = <<0, 0>>
          /\ macString \in MalformedStrings

\* libmyo_mac_address_to_string(mac).
mac_address_to_string ==
    /\ step = "address"
    /\ step' = "formatted"
    /\ macString' = libmyo_mac_address_to_string(mac)
    /\ UNCHANGED <<mac, macParsed, quatVars, rotateVars, loopVars, programVars>>

\* libmyo_string_to_mac_address(macString).
string_to_mac_address ==
    /\ step \in {"formatted", "string"}
    /\ step' = IF step = "formatted" THEN "roundtrip" ELSE "rejected"
    /\ macParsed' = libmyo_string_to_mac_address(macString)
    /\ UNCHANGED <<mac, macString, quatVars, rotateVars, loopVars, programVars>>

MacNext ==
    \/ mac_address_to_string
    \/ string_to_mac_address

MacSpec == MacInit /\ [][MacNext]_vars

(***************************************************************************)
(* A caller of Quaternion::operator*: it multiplies three quaternions,     *)
(* once from the left and once from the right.                             *)
(***************************************************************************)
\* The components of the quaternions and vectors are -MaxCoord .. MaxCoord.
MaxCoord == 1
Coords == (0 - MaxCoord) .. MaxCoord

Quaternions == {Quaternion(x, y, z, w) : x \in Coords, y \in Coords, z \in Coords, w \in Coords}

\* The quaternions with at most two components that are not zero.
QuaternionSamples ==
    {q \in Quaternions : Cardinality({c \in {"_x", "_y", "_z", "_w"} : q[c] # 0}) <= 2}

MulInit ==
    /\ NoHub
    /\ NoLoop
    /\ NoMac
    /\ NoVectors
    /\ step = "operands"
    /\ qa \in QuaternionSamples
    /\ qb \in QuaternionSamples
    /\ qc \in QuaternionSamples
    /\ qleft = QuaternionIdentity
    /\ qright = QuaternionIdentity
    /\ qconj = QuaternionIdentity
    /\ qprod = QuaternionIdentity

\* (qa * qb) * qc.
multiply_left ==
    /\ step = "operands"
    /\ step' = "left"
    /\ qleft' = operator_mul(operator_mul(qa, qb), qc)
    /\ UNCHANGED <<qa, qb, qc, qright, qconj, qprod, macVars, rotateVars, loopVars, programVars>>

\* qa * (qb * qc).
multiply_right ==
    /\ step = "left"
    /\ step' = "both"
    /\ qright' = operator_mul(qa, operator_mul(qb, qc))
    /\ UNCHANGED <<qa, qb, qc, qleft, qconj, qprod, macVars, rotateVars, loopVars, programVars>>

MulNext ==
    \/ multiply_left
    \/ multiply_right

MulSpec == MulInit /\ [][MulNext]_vars

(***************************************************************************)
(* A caller of Quaternion::conjugate: it multiplies a quaternion by its    *)
(* conjugate.                                                              *)
(***************************************************************************)
ConjInit ==
    /\ NoHub
    /\ NoLoop
    /\ NoMac
    /\ NoVectors
    /\ step = "operand"
    /\ qa \in Quaternions
    /\ qb = QuaternionIdentity
    /\ qc = QuaternionIdentity
    /\ qleft = QuaternionIdentity
    /\ qright = QuaternionIdentity
    /\ qconj = QuaternionIdentity
    /\ qprod = QuaternionIdentity

\* qa.conjugate().
take_conjugate ==
    /\ step = "operand"
    /\ step' = "conjugate"
    /\ qconj' = conjugate(qa)
    /\ UNCHANGED <<qa, qb, qc, qleft, qright, qprod, macVars, rotateVars, loopVars, programVars>>

\* qa * qa.conjugate().
times_conjugate ==
    /\ step = "conjugate"
    /\ step' = "product"
    /\ qprod' = operator_mul(qa, qconj)
    /\ UNCHANGED <<qa, qb, qc, qleft, qright, qconj, macVars, rotateVars, loopVars, programVars>>

ConjNext ==
    \/ take_conjugate
    \/ times_conjugate

ConjSpec == ConjInit /\ [][ConjNext]_vars

(***************************************************************************)
(* A caller of rotate: it asks for the rotation from one vector to         *)
(* another and rotates the first vector by it.                             *)
(***************************************************************************)
\* The vectors that are not zero.
Vectors ==
    {Vector3(x, y, z) : x \in Coords, y \in Coords, z \in Coords} \ {Vector3(0, 0, 0)}

\* rotate(from, to) returns before it calls std::sqrt, or calls it on a
\* perfect square.
ExactRotate(from_, to_) ==
    \/ dot(from_, to_) >= 1
    \/ IsSquare(dot(from_, from_) * dot(to_, to_))

RotateInit ==
    /\ NoHub
    /\ NoLoop
    /\ NoMac
    /\ NoQuaternions
    /\ step = "vectors"
    /\ from \in Vectors
    /\ to \in Vectors
    /\ ExactRotate(from, to)
    /\ rotation = QuaternionIdentity
    /\ rotated = Vector3(0, 0, 0)

\* rotate(from, to).
rotate_between ==
    /\ step = "vectors"
    /\ step' = "rotation"
    /\ rotation' = rotate_from_to(from, to)
    /\ UNCHANGED <<from, to, rotated, macVars, quatVars, loopVars, programVars>>

\* rotate(rotation, from).
rotate_vector ==
    /\ step = "rotation"
    /\ step' = "rotated"
    /\ rotated' = rotate_quat_vec(rotation, from)
    /\ UNCHANGED <<from, to, rotation, macVars, quatVars, loopVars, programVars>>

RotateNext ==
    \/ rotate_between
    \/ rotate_vector

RotateSpec == RotateInit /\ [][RotateNext]_vars

(***************************************************************************)
(* A program that polls with Hub::run and Hub::runOnce only: it never      *)
(* calls Hub::waitForMyo.                                                  *)
(***************************************************************************)
RunNext ==
    \/ HubDtor
    \/ \E result \in libmyo_result_t : \E error \in out_error(result) :
           HubCtor(result, error)
    \/ \E listener \in Listeners : addListener(listener)
    \/ \E listener \in Listeners : removeListener(listener)
    \/ \E result \in libmyo_result_t : \E error \in out_error(result) :
           setLockingPolicy(result, error)
    \/ \E method \in MyoMethods, result \in libmyo_result_t :
           \E error \in out_error(result) : MyoCall(method, result, error)
    \/ \E duration \in Durations : run(duration)
    \/ \E duration \in Durations : runOnce(duration)
    \/ \E e \in Events : runHandler(e)
    \/ \E e \in Events : runOnceHandler(e)
    \/ \E result \in libmyo_result_t : \E error \in out_error(result) :
           runReturns(result, error)

RunSpec == Init /\ [][RunNext]_vars

(***************************************************************************)
(* The listener loop of Hub::onDeviceEvent, iteration by iteration, with   *)
(* listeners whose callbacks call Hub::addListener or Hub::removeListener  *)
(* on the Hub that is dispatching.  _listeners is a std::vector: the       *)
(* iterators of the loop point into its memory block.  erase moves the     *)
(* elements behind the erased one down and leaves the last slot as it was; *)
(* push_back writes the next slot, or moves the vector to a new block when *)
(* the capacity is used up.  Dereferencing an iterator that is not within  *)
(* the vector any more is undefined: a build with checked iterators        *)
(* aborts, another reads what the slot holds.                              *)
(***************************************************************************)
\* What a callback does to the Hub: nothing, or one call.
Changes ==
    {<<"none", 0>>}
      \cup {<<"addListener", l>> : l \in Listeners}
      \cup {<<"removeListener", l>> : l \in Listeners}

\* The position of the listener in the list.
PositionOf(listeners, listener) ==
    CHOOSE p \in 1 .. Len(listeners) : listeners[p] = listener

\* The block of a vector of size elements after erase at position p.
EraseSlot(block, size, p) ==
    [k \in 1 .. Len(block) |-> IF k >= p /\ k < size THEN block[k + 1] ELSE block[k]]

\* The block after a write to slot k.
WriteSlot(block, k, listener) ==
    IF k <= Len(block) THEN [block EXCEPT ![k] = listener] ELSE Append(block, listener)

\* The capacity after a push_back that found the vector full.
Grow(cap) == IF cap = 0 THEN 1 ELSE 2 * cap

\* What the loop leaves alone.
loopFrame == <<_hub, timeout_ms, prevSize, duration_ms, polls, nEvents, handlerResult,
               abi, _error, freed, thrown, ret, calls, order, sizeBefore, sawPair,
               deleted, shutdowns, step, macVars, quatVars, rotateVars>>

\* Hub::onDeviceEvent for a paired event, up to the first test of the loop:
\* loopI = _listeners.begin(), loopIE = _listeners.end().
LoopBegin(ev) ==
    /\ pc = "idle"
    /\ loop = "none"
    /\ libmyo_event_get_type(ev) = libmyo_event_paired
    /\ libmyo_event_get_myo(ev) # NULL
    /\ pc' = "inrun"
    /\ op' = "run"
    /\ loop' = "loop"
    /\ event' = ev
    /\ _myos' = IF lookupMyo(_myos, libmyo_event_get_myo(ev)) = NULL
                THEN addMyo(_myos, libmyo_event_get_myo(ev))
                ELSE _myos
    /\ loopI' = 1
    /\ loopIE' = Len(_listeners) + 1
    /\ storage' = _listeners
    /\ capacity' \in {Len(_listeners), Len(_listeners) + 1}
    /\ reallocated' = FALSE
    /\ received' = <<>>
    /\ removed' = {}
    /\ pastEnd' = FALSE
    /\ listenersBefore' = _listeners
    /\ UNCHANGED <<_listeners, registered, loopFrame>>

\* One iteration: DeviceListener* listener = *loopI, the calls on the listener,
\* during which the listener makes the change, and ++loopI.
LoopCall(change, checked) ==
    LET invalid == reallocated \/ loopI > Len(_listeners)
        listener == storage[loopI]
        size == Len(_listeners)
        adds == change[1] = "addListener" /\ ~Contains(_listeners, change[2])
        removes == change[1] = "removeListener" /\ Contains(_listeners, change[2])
    IN  /\ loop = "loop"
        /\ loopI # loopIE
        /\ IF invalid /\ checked
           THEN /\ loop' = "aborted"
                /\ pastEnd' = TRUE
                /\ UNCHANGED <<loopI, storage, capacity, reallocated, received, removed,
                               _listeners, registered>>
           ELSE /\ loop' = "loop"
                /\ pastEnd' = (pastEnd \/ invalid)
                /\ received' = Append(received, listener)
                /\ _listeners' =
                     IF change[1] = "addListener"
                     THEN addListenerTo(_listeners, change[2])
                     ELSE IF change[1] = "removeListener"
                          THEN removeListenerFrom(_listeners, change[2])
                          ELSE _listeners
                /\ registered' = _listeners'
                /\ removed' = IF removes THEN removed \cup {change[2]} ELSE removed
                /\ reallocated' = (reallocated \/ (adds /\ size = capacity))
                /\ capacity' = IF adds /\ size = capacity THEN Grow(capacity) ELSE capacity
                /\ storage' =
                     IF reallocated
                     THEN storage
                     ELSE IF adds
                          THEN IF size < capacity
                               THEN WriteSlot(storage, size + 1, change[2])
                               ELSE storage
                          ELSE IF removes
                               THEN EraseSlot(storage, size,
                                              PositionOf(_listeners, change[2]))
                               ELSE storage
                /\ loopI' = loopI + 1
        /\ UNCHANGED <<loopIE, pc, op, event, _myos, listenersBefore, loopFrame>>

\* loopI == loopIE: the loop is left and onDeviceEvent returns to the handler.
LoopEnd ==
    /\ loop = "loop"
    /\ loopI = loopIE
    /\ loop' = "dispatched"
    /\ UNCHANGED <<loopI, loopIE, storage, capacity, reallocated, received, removed, pastEnd,
                   pc, op, event, _myos, _listeners, registered, listenersBefore,
                   loopFrame>>

ReentrantNext ==
    \/ \E result \in libmyo_result_t : \E error \in out_error(result) :
           HubCtor(result, error)
    \/ \E listener \in Listeners : addListener(listener)
    \/ \E listener \in Listeners : removeListener(listener)
    \/ \E e \in Events : LoopBegin(e)
    \/ \E change \in Changes, checked \in BOOLEAN : LoopCall(change, checked)
    \/ LoopEnd

ReentrantSpec == Init /\ [][ReentrantNext]_vars

(***************************************************************************)
(* Properties.                                                             *)
(***************************************************************************)
\* A handler of run or runOnce has handed the event to Hub::onDeviceEvent.
Dispatching == event # NoEvent /\ op \in {"run", "runOnce"}

\* The handle was in the registry when the handler was entered.
KnownBefore(opaqueMyo) == \E i \in 1 .. sizeBefore : _myos[i]._myo = opaqueMyo

\* The handles of the registry.
Registered == {_myos[i]._myo : i \in 1 .. Len(_myos)}

\* C1: an event whose device handle is not in the registry and whose type is
\* not paired makes Hub::onDeviceEvent call no listener method (not even
\* onOpaqueEvent), add no device, leave the listener list as it was and
\* raise no error.
C1_UnknownDropped ==
    (/\ Dispatching
     /\ libmyo_event_get_type(event) # libmyo_event_paired
     /\ ~KnownBefore(libmyo_event_get_myo(event)))
    => /\ calls = <<>>
       /\ Len(_myos) = sizeBefore
       /\ _listeners = listenersBefore
       /\ thrown = "none"
       /\ pc = "inrun"

\* An rssi event for a handle that is not registered arrives while another
\* device is registered and a listener listens.
C1_Witness ==
    /\ Dispatching
    /\ libmyo_event_get_type(event) = libmyo_event_rssi
    /\ libmyo_event_get_myo(event) \in Handles
    /\ ~KnownBefore(libmyo_event_get_myo(event))
    /\ Len(_myos) = 1
    /\ Len(_listeners) >= 1
    /\ calls = <<>>

C3_OneMyoPerHandle ==
    \A i, j \in 1 .. Len(_myos) : _myos[i]._myo = _myos[j]._myo => i = j

\* Hub::onDeviceEvent has run the listener loop for the event: no error was
\* raised and the event's device is in the registry.
Dispatched ==
    /\ Dispatching
    /\ thrown = "none"
    /\ libmyo_event_get_myo(event) \in Registered

\* The typed calls among calls: all but onOpaqueEvent.
Typed(made) == SelectSeq(made, LAMBDA c : c.method # "onOpaqueEvent")

\* <<listener, method>> of each call, in call order.
Trace(made) == [k \in 1 .. Len(made) |-> <<made[k].listener, made[k].method>>]

\* The method of DeviceListener named after each event type.
TagMethod ==
    [type \in libmyo_event_type_t |->
        CASE type = libmyo_event_paired -> "onPair"
          [] type = libmyo_event_unpaired -> "onUnpair"
          [] type = libmyo_event_connected -> "onConnect"
          [] type = libmyo_event_disconnected -> "onDisconnect"
          [] type = libmyo_event_arm_synced -> "onArmSync"
          [] type = libmyo_event_arm_unsynced -> "onArmUnsync"
          [] type = libmyo_event_orientation -> "onOrientationData"
          [] type = libmyo_event_pose -> "onPose"
          [] type = libmyo_event_rssi -> "onRssi"
          [] type = libmyo_event_unlocked -> "onUnlock"
          [] type = libmyo_event_locked -> "onLock"
          [] type = libmyo_event_emg -> "onEmgData"
          [] type = libmyo_event_battery_level -> "onBatteryLevelReceived"
          [] type = libmyo_event_warmup_completed -> "onWarmupCompleted"]

\* The typed methods one listener is expected to receive for an event type.
ExpectedMethods(type) ==
    IF type = libmyo_event_orientation
    THEN <<"onOrientationData", "onAccelerometerData", "onGyroscopeData">>
    ELSE IF type \in {libmyo_event_battery_level, libmyo_event_warmup_completed}
    THEN <<>>
    ELSE <<TagMethod[type]>>

RECURSIVE ExpectedTrace(_, _, _)
\* <<listener, method>> expected for the listeners from position k on.
ExpectedTrace(order_, k, type) ==
    IF k > Len(order_) THEN <<>>
    ELSE <<<<order_[k], "onOpaqueEvent">>>>
             \o [m \in 1 .. Len(ExpectedMethods(type)) |->
                    <<order_[k], ExpectedMethods(type)[m]>>]
             \o ExpectedTrace(order_, k + 1, type)

RegPos(listener) == CHOOSE k \in 1 .. Len(registered) : registered[k] = listener

\* C5: during Hub::run the events reach the listeners in the order
\* libmyo_run produces them, all listeners are done with one event before
\* any is called for the next, and within one event the listeners are called
\* in the order addListener registered them.
C5_DeliveryOrder ==
    op = "run" =>
        /\ \A i \in 1 .. Len(order) : Contains(registered, order[i][2])
        /\ \A i, j \in 1 .. Len(order) :
             i < j => \/ order[i][1] < order[j][1]
                      \/ /\ order[i][1] = order[j][1]
                         /\ RegPos(order[i][2]) < RegPos(order[j][2])
        /\ \A n \in 1 .. nEvents :
             Len(SelectSeq(order, LAMBDA o : o[1] = n)) \in {0, Len(registered)}

\* Listener 2 was registered before listener 1, and run has delivered two
\* events to both.
C5_Witness ==
    /\ op = "run"
    /\ registered = <<2, 1>>
    /\ order = <<<<1, 2>>, <<1, 1>>, <<2, 2>>, <<2, 1>>>>

\* libmyo_run returns to waitForMyo in this step.
WaitPollReturns == op = "waitForMyo" /\ pc = "inrun" /\ event' = NoEvent

\* C6 as stated: waitForMyo with timeout 0 and no pairing event makes at most
\* one libmyo_run call.
C6_ZeroTimeoutOnePoll ==
    (op = "waitForMyo" /\ timeout_ms = 0 /\ ~sawPair /\ thrown = "none")
    => polls <= 1

\* C6 amended: with a non-zero timeout and no pairing event waitForMyo
\* returns null after exactly one libmyo_run call; with timeout 0 it does not
\* return while no pairing event is produced but calls libmyo_run again, for
\* 1000 ms.
C6_NoPairingEvent ==
    [][(WaitPollReturns /\ ~sawPair /\ thrown' = "none")
       => IF timeout_ms # 0
          THEN /\ pc' = "idle"
               /\ ret' = <<NULL>>
               /\ polls = 1
               /\ polls' = 1
               /\ duration_ms = timeout_ms
          ELSE /\ pc' = "inrun"
               /\ ret' = <<>>
               /\ polls' = Min(polls + 1, MaxPolls)
               /\ duration_ms' = 1000]_vars

\* waitForMyo(0) is in its second libmyo_run call and no device has paired.
C6_Witness ==
    /\ op = "waitForMyo"
    /\ timeout_ms = 0
    /\ ~sawPair
    /\ pc = "inrun"
    /\ polls = 2

\* C7: waitForMyo with timeout 0 blocks until a Myo is found: a libmyo_run
\* call that ends without a pairing event is followed by another one, the
\* call never returns null, and once a pairing event was produced it returns
\* the Myo of that event's device.
C7_BlocksUntilFound ==
    /\ []((op = "waitForMyo" /\ timeout_ms = 0) => ret # <<NULL>>)
    /\ [][(WaitPollReturns /\ timeout_ms = 0 /\ thrown' = "none")
          => IF sawPair
             THEN /\ pc' = "idle"
                  /\ Len(ret') = 1
                  /\ ret'[1] \in 1 .. Len(_myos)
                  /\ _myos[ret'[1]]._myo = libmyo_event_get_myo(event)
             ELSE /\ pc' = "inrun"
                  /\ ret' = <<>>]_vars

\* waitForMyo(0) has returned a device after more than one libmyo_run call,
\* with another device registered before.
C7_Witness ==
    /\ op = "waitForMyo"
    /\ timeout_ms = 0
    /\ pc = "idle"
    /\ polls >= 2
    /\ prevSize = 1
    /\ ret = <<2>>

\* C8: waitForMyo returns a device only when a pairing event registered a
\* new device during the call: the handle of the returned Myo was not in the
\* registry when the call began; when it returns null the registry is as it
\* was.
C8_ReturnsNewDevice ==
    (op = "waitForMyo" /\ pc = "idle" /\ ret # <<>>)
    => IF ret[1] = NULL
       THEN Len(_myos) = prevSize
       ELSE /\ Len(_myos) = prevSize + 1
            /\ \A i \in 1 .. prevSize : _myos[i]._myo # _myos[ret[1]]._myo

\* An orientation event of a registered device was dispatched to the sole
\* listener.
OrientationToSoleListener ==
    /\ Dispatched
    /\ libmyo_event_get_type(event) = libmyo_event_orientation
    /\ Len(_listeners) = 1

\* C9 as stated: an orientation event makes the sole listener's orientation
\* callback receive the quaternion and the accelerometer vector, and no other
\* callback fires for the event.
C9_OnlyOrientationCallback ==
    OrientationToSoleListener =>
        /\ Len(Typed(calls)) = 1
        /\ Typed(calls)[1].method = "onOrientationData"

\* C9 amended: an orientation event for a paired handle h makes the sole
\* listener's onOrientationData receive exactly the quaternion (x,y,z,w), its
\* onAccelerometerData exactly the accelerometer vector and its
\* onGyroscopeData exactly the gyroscope vector, each with the Myo of h and
\* the event's timestamp; apart from onOpaqueEvent no other callback fires.
C9_OrientationCallbacks ==
    OrientationToSoleListener =>
        /\ Len(calls) = 4
        /\ calls[1].method = "onOpaqueEvent"
        /\ calls[2].method = "onOrientationData"
        /\ calls[2].args =
             <<[_x |-> libmyo_event_get_orientation(event, 0),
                _y |-> libmyo_event_get_orientation(event, 1),
                _z |-> libmyo_event_get_orientation(event, 2),
                _w |-> libmyo_event_get_orientation(event, 3)]>>
        /\ calls[3].method = "onAccelerometerData"
        /\ calls[3].args =
             <<<<libmyo_event_get_accelerometer(event, 0),
                 libmyo_event_get_accelerometer(event, 1),
                 libmyo_event_get_accelerometer(event, 2)>>>>
        /\ calls[4].method = "onGyroscopeData"
        /\ calls[4].args =
             <<<<libmyo_event_get_gyroscope(event, 0),
                 libmyo_event_get_gyroscope(event, 1),
                 libmyo_event_get_gyroscope(event, 2)>>>>
        /\ \A k \in 2 .. 4 :
             /\ calls[k].listener = _listeners[1]
             /\ calls[k].timestamp = libmyo_event_get_timestamp(event)
             /\ _myos[calls[k].myo]._myo = libmyo_event_get_myo(event)

\* The sole listener has received the orientation event with quaternion
\* (0,0,0,1) and accelerometer (0,0,1).
C9_Witness ==
    /\ OrientationToSoleListener
    /\ Len(calls) = 4
    /\ calls[2].args = <<[_x |-> 0, _y |-> 0, _z |-> 0, _w |-> 1]>>
    /\ calls[3].args = <<<<0, 0, 1>>>>

\* The exception each result code of the ABI stands for.
ExpectedException(result) ==
    IF result = libmyo_error_invalid_argument THEN "invalid_argument"
    ELSE IF result \in {libmyo_error, libmyo_error_runtime} THEN "runtime_error"
    ELSE "none"

\* The calls that make an ABI call with a ThrowOnError.
AbiCalls == {"Hub", "setLockingPolicy", "run", "runOnce", "waitForMyo"} \cup MyoMethods

\* C10: a wrapper call whose ABI call reports an error raises
\* std::invalid_argument for the kind invalid-argument and std::runtime_error
\* for the kinds error and runtime error; a call whose ABI call reports
\* success raises nothing.
C10_ErrorsBecomeExceptions ==
    abi # <<>> => /\ op \in AbiCalls
                  /\ thrown = ExpectedException(abi[1])

\* A Myo operation's ABI call reported a generic error and the call raised
\* std::runtime_error.
C10_Witness ==
    /\ op = "vibrate"
    /\ abi = <<libmyo_error>>
    /\ thrown = "runtime_error"

\* C11: every error-detail handle an ABI call stores into a ThrowOnError is
\* released with libmyo_free_error_details exactly once by the time the
\* wrapper is left, whatever kind libmyo_error_kind reports for it.
C11_ErrorDetailsFreedOnce ==
    (abi # <<>> /\ _error # NoError) => freed = 1

\* The calls that poll the hub with libmyo_run.
Polling == {"run", "runOnce", "waitForMyo"}

\* C12: when libmyo_run reports a failure during run, runOnce or waitForMyo
\* (waitForMyo with timeout 0 included) the call ends there with the
\* exception of that failure: it is not inside a further libmyo_run call and
\* returns no value.
C12_NoRetries ==
    (op \in Polling /\ abi # <<>> /\ abi[1] # libmyo_success)
    => /\ pc = "idle"
       /\ thrown = ExpectedException(abi[1])
       /\ ret = <<>>
       /\ event = NoEvent

\* The second libmyo_run call of waitForMyo(0) failed and the call ended
\* with std::runtime_error.
C12_Witness ==
    /\ op = "waitForMyo"
    /\ timeout_ms = 0
    /\ polls = 2
    /\ abi = <<libmyo_error_runtime>>
    /\ thrown = "runtime_error"
    /\ pc = "idle"

\* The onOpaqueEvent calls the listener received for the event.
Deliveries(listener) ==
    Len(SelectSeq(calls, LAMBDA c : c.listener = listener /\ c.method = "onOpaqueEvent"))

\* C13: the listener list never holds a listener twice; addListener of a
\* registered listener leaves the list as it was (one of an unregistered
\* listener appends it), and every listener of the list receives a
\* dispatched event once.
C13_NoDuplicateListeners ==
    /\ \A i, j \in 1 .. Len(_listeners) : _listeners[i] = _listeners[j] => i = j
    /\ op = "addListener" =>
         \E l \in Listeners :
             _listeners = IF Contains(listenersBefore, l) THEN listenersBefore
                          ELSE Append(listenersBefore, l)
    /\ Dispatched =>
         \A l \in Listeners : Deliveries(l) = IF Contains(_listeners, l) THEN 1 ELSE 0

\* addListener was called for a listener that was registered, with two
\* listeners in the list.
C13_Witness ==
    /\ op = "addListener"
    /\ Len(listenersBefore) = 2
    /\ _listeners = listenersBefore

\* C14: removeListener(l) takes a registered l out of the list, so that no
\* later event reaches it, keeps the order of the others, leaves the
\* registry as it is and changes nothing when l is not registered.
C14_RemoveListener ==
    /\ [](/\ _listeners = registered
          /\ op = "removeListener" =>
               \E l \in Listeners :
                   _listeners = SelectSeq(listenersBefore, LAMBDA x : x # l)
          /\ Dispatched => \A k \in 1 .. Len(calls) : Contains(registered, calls[k].listener))
    /\ [][op' = "removeListener" => _myos' = _myos /\ pc' = pc /\ _hub' = _hub]_vars

\* The second of two listeners was removed while a device is registered.
C14_Witness ==
    /\ op = "removeListener"
    /\ listenersBefore = <<1, 2>>
    /\ _listeners = <<1>>
    /\ Len(_myos) = 1

\* C15: runOnce hands at most one event to the dispatcher per call, its
\* handler answering stop after the first; run hands every event of the
\* poll to the dispatcher, its handler answering continue each time.
C15_OneEventOrAll ==
    /\ op = "runOnce" =>
         /\ nEvents <= 1
         /\ (nEvents = 1 /\ thrown = "none" /\ pc = "inrun")
                => handlerResult = libmyo_handler_stop
         /\ Len(order) <= Len(_listeners)
    /\ op = "run" =>
         /\ (pc = "inrun" /\ thrown = "none") => handlerResult = libmyo_handler_continue
         /\ \A i \in 1 .. Len(order) : order[i][1] \in 1 .. nEvents
         /\ (Dispatched /\ _listeners # <<>>) => order[Len(order)][1] = nEvents

\* run has handed a second event of the same poll to the dispatcher, which
\* called a listener for both.
C15_Witness ==
    /\ op = "run"
    /\ nEvents = 2
    /\ Dispatched
    /\ Len(order) = 2
    /\ order[1][1] = 1

\* A listener callback has asked for the hub to be stopped: the listener of
\* the README, whose callback for the unpaired event returns False.
StopSignalled == \E k \in 1 .. Len(calls) : calls[k].method = "onUnpair"

C17_DispatchCannotFail ==
    Dispatching => (thrown = "none" /\ pc = "inrun")

\* The Myo objects the registry has created: addMyo is the only place that
\* creates one, and it puts each into the registry.
Created == {_myos[i].addr : i \in 1 .. Len(_myos)}

\* How often the Myo object was deleted.
Deletions(myo) == Len(SelectSeq(deleted, LAMBDA d : d = myo))

\* C18: no Myo object is deleted and the hub is not shut down while the Hub
\* is alive; once the Hub is destroyed every Myo object the registry created
\* has been deleted exactly once, nothing else was deleted, and the hub
\* handle was shut down exactly once.
C18_RegistryOwnsWrappers ==
    /\ pc # "destroyed" => (deleted = <<>> /\ shutdowns = <<>>)
    /\ pc = "destroyed" =>
         /\ \A myo \in Created : Deletions(myo) = 1
         /\ \A k \in 1 .. Len(deleted) : deleted[k] \in Created
         /\ Cardinality(Created) = Len(_myos)
         /\ shutdowns = <<_hub>>
         /\ _hub # NULL

\* A Hub with two Myo objects in its registry was destroyed.
C18_Witness ==
    /\ pc = "destroyed"
    /\ Len(_myos) = 2
    /\ Len(deleted) = 2

\* The typed calls the listener received for the event.
TypedFor(listener) == SelectSeq(Typed(calls), LAMBDA c : c.listener = listener)

\* C19: for a registered device a battery-level event invokes each
\* listener's onBatteryLevelReceived with the event's level, and a
\* warm-up-completed event each listener's onWarmupCompleted with the
\* event's result.
C19_BatteryAndWarmupDelivered ==
    /\ (Dispatched /\ libmyo_event_get_type(event) = libmyo_event_battery_level) =>
         \A k \in 1 .. Len(_listeners) :
             \E c \in 1 .. Len(TypedFor(_listeners[k])) :
                 /\ TypedFor(_listeners[k])[c].method = "onBatteryLevelReceived"
                 /\ TypedFor(_listeners[k])[c].args = <<libmyo_event_get_battery_level(event)>>
    /\ (Dispatched /\ libmyo_event_get_type(event) = libmyo_event_warmup_completed) =>
         \A k \in 1 .. Len(_listeners) :
             \E c \in 1 .. Len(TypedFor(_listeners[k])) :
                 /\ TypedFor(_listeners[k])[c].method = "onWarmupCompleted"
                 /\ TypedFor(_listeners[k])[c].args = <<libmyo_event_get_warmup_result(event)>>

\* C20: for a registered device an arm-synced event delivers to each
\* listener's onArmSync the event's arm, x-direction, rotation on arm and
\* warm-up state.
C20_ArmSyncArguments ==
    (Dispatched /\ libmyo_event_get_type(event) = libmyo_event_arm_synced) =>
        \A k \in 1 .. Len(_listeners) :
            /\ Len(TypedFor(_listeners[k])) = 1
            /\ TypedFor(_listeners[k])[1].method = "onArmSync"
            /\ TypedFor(_listeners[k])[1].args =
                 <<libmyo_event_get_arm(event),
                   libmyo_event_get_x_direction(event),
                   libmyo_event_get_rotation_on_arm(event),
                   libmyo_event_get_warmup_state(event)>>


\* C21: decoding is lossless and positional.  When an event of a registered
\* device has been dispatched, every typed callback made for it carries the
\* event's timestamp and the Myo whose handle is the event's handle; onPair
\* and onConnect carry the four firmware-version components (major, minor,
\* patch, hardware revision), onRssi the RSSI value, onPose the pose code and
\* onEmgData the eight EMG samples in sensor order 0..7, all unchanged.
C21_LosslessDecoding ==
    Dispatched =>
        \A k \in 1 .. Len(Typed(calls)) :
            LET c == Typed(calls)[k]
            IN  /\ c.timestamp = libmyo_event_get_timestamp(event)
                /\ c.myo \in 1 .. Len(_myos)
                /\ _myos[c.myo]._myo = libmyo_event_get_myo(event)
                /\ c.method \in {"onPair", "onConnect"} =>
                     /\ Len(c.args) = 1
                     /\ c.args[1].firmwareVersionMajor =
                          libmyo_event_get_firmware_version(event, 0)
                     /\ c.args[1].firmwareVersionMinor =
                          libmyo_event_get_firmware_version(event, 1)
                     /\ c.args[1].firmwareVersionPatch =
                          libmyo_event_get_firmware_version(event, 2)
                     /\ c.args[1].firmwareVersionHardwareRev =
                          libmyo_event_get_firmware_version(event, 3)
                /\ c.method = "onRssi" => c.args = <<libmyo_event_get_rssi(event)>>
                /\ c.method = "onPose" =>
                     /\ Len(c.args) = 1
                     /\ c.args[1]._type = libmyo_event_get_pose(event)
                /\ c.method = "onEmgData" =>
                     /\ Len(c.args) = 1
                     /\ DOMAIN c.args[1] = 0 .. 7
                     /\ \A sensor \in 0 .. 7 :
                          c.args[1][sensor] = libmyo_event_get_emg(event, sensor)

\* A listener has received the connected event of the first device with
\* firmware version 1.5.1970 on hardware revision 2.
C21_Witness ==
    /\ Dispatched
    /\ \E k \in 1 .. Len(calls) :
         /\ calls[k].method = "onConnect"
         /\ calls[k].timestamp = 1001
         /\ calls[k].args = <<[firmwareVersionMajor |-> 1,
                               firmwareVersionMinor |-> 5,
                               firmwareVersionPatch |-> 1970,
                               firmwareVersionHardwareRev |-> 2]>>

\* C22: MAC address round trip.  Parsing the hyphen-separated hex string
\* that libmyo_mac_address_to_string produced for a 48-bit address yields
\* the address again, and parsing a string that is not in the format
\* 00-00-00-00-00-00 yields 0.
C22_MacRoundTrip ==
    /\ step = "roundtrip" => macParsed = mac
    /\ step = "rejected" => macParsed = <<0, 0>>

\* The address AB-00-FF-00-AB-FF has been formatted and parsed back.
C22_Witness ==
    /\ step = "roundtrip"
    /\ mac = <<11206911, 44031>>
    /\ macString = <<"A", "B", "-", "0", "0", "-", "F", "F", "-",
                     "0", "0", "-", "A", "B", "-", "F", "F">>
    /\ macParsed = <<11206911, 44031>>

\* C23: quaternion composition is associative.  For quaternions a, b and c
\* with integer components, (a * b) * c computed with Quaternion::operator*
\* is equal, component by component, to a * (b * c).
C23_MulAssociative ==
    step = "both" =>
        /\ qleft._x = qright._x
        /\ qleft._y = qright._y
        /\ qleft._z = qright._z
        /\ qleft._w = qright._w

\* The units i, j and k have been multiplied both ways: (i * j) * k is -1.
C23_Witness ==
    /\ step = "both"
    /\ qa = [_x |-> 1, _y |-> 0, _z |-> 0, _w |-> 0]
    /\ qb = [_x |-> 0, _y |-> 1, _z |-> 0, _w |-> 0]
    /\ qc = [_x |-> 0, _y |-> 0, _z |-> 1, _w |-> 0]
    /\ qleft = [_x |-> 0, _y |-> 0, _z |-> 0, _w |-> -1]

\* The squared magnitude of a quaternion.
SquaredMagnitude(q) == q._x * q._x + q._y * q._y + q._z * q._z + q._w * q._w

\* C24: a quaternion multiplied by its conjugate recovers the identity
\* rotation.  For every non-zero q the product q * q.conjugate() has the
\* vector part (0,0,0) and a scalar part equal to the squared magnitude of
\* q, and for a q of magnitude 1 the product is the identity (0,0,0,1).
C24_TimesConjugate ==
    (step = "product" /\ SquaredMagnitude(qa) # 0) =>
        /\ qprod._x = 0
        /\ qprod._y = 0
        /\ qprod._z = 0
        /\ qprod._w = SquaredMagnitude(qa)
        /\ SquaredMagnitude(qa) = 1 => qprod = [_x |-> 0, _y |-> 0, _z |-> 0, _w |-> 1]

\* The quaternion (1,-1,1,1) has been multiplied by its conjugate
\* (-1,1,-1,1): the product is (0,0,0,4).
C24_Witness ==
    /\ step = "product"
    /\ qa = [_x |-> 1, _y |-> -1, _z |-> 1, _w |-> 1]
    /\ qconj = [_x |-> -1, _y |-> 1, _z |-> -1, _w |-> 1]
    /\ qprod = [_x |-> 0, _y |-> 0, _z |-> 0, _w |-> 4]

\* C25: rotate(from, to) returns a rotation from from to to.  For all
\* non-zero vectors from and to, of unit length or not, the vector that
\* rotating from by the returned quaternion gives has the direction of to:
\* its cross product with to is zero and its dot product with to is positive.
C25_RotateFromTo ==
    step = "rotated" =>
        /\ cross(rotated, to) = Vector3(0, 0, 0)
        /\ dot(rotated, to) > 0

\* A handler of run or runOnce has dispatched a paired event whose handle
\* was in the registry before.
PairedAgain ==
    /\ Dispatching
    /\ thrown = "none"
    /\ libmyo_event_get_type(event) = libmyo_event_paired
    /\ KnownBefore(libmyo_event_get_myo(event))

\* C26: when only run and runOnce are used, a paired event for a handle
\* that is already registered adds nothing to the registry and is dispatched
\* as an onPair call to every listener with the Myo the registry already
\* held for the handle, and the registry never holds a handle twice.
C26_PairedAgainAddsNothing ==
    /\ \A i, j \in 1 .. Len(_myos) : _myos[i]._myo = _myos[j]._myo => i = j
    /\ PairedAgain =>
         /\ Len(_myos) = sizeBefore
         /\ \A k \in 1 .. Len(_listeners) :
              \E n \in 1 .. Len(calls) :
                  /\ calls[n].listener = _listeners[k]
                  /\ calls[n].method = "onPair"
         /\ \A n \in 1 .. Len(Typed(calls)) :
              /\ Typed(calls)[n].method = "onPair"
              /\ Typed(calls)[n].myo \in 1 .. sizeBefore
              /\ _myos[Typed(calls)[n].myo]._myo = libmyo_event_get_myo(event)

\* Two listeners have received the second paired event of a device.
C26_Witness ==
    /\ PairedAgain
    /\ Len(_listeners) = 2
    /\ Len(Typed(calls)) = 2
    /\ Len(_myos) = 1

\* A handler of run or runOnce has dispatched an unpaired or disconnected
\* event of a registered device.
GoneDispatched ==
    /\ Dispatching
    /\ thrown = "none"
    /\ libmyo_event_get_type(event) \in {libmyo_event_unpaired, libmyo_event_disconnected}
    /\ KnownBefore(libmyo_event_get_myo(event))

\* The step hands the next event of the same libmyo_run to onDeviceEvent,
\* and the event carries the handle of the event before it.
NextForSameHandle ==
    /\ nEvents' = nEvents + 1
    /\ thrown' = "none"
    /\ event' # NoEvent
    /\ libmyo_event_get_myo(event') = libmyo_event_get_myo(event)

\* C27: the registry only grows during a Hub's life.  No operation removes
\* or replaces a registry entry, so the size of the registry never
\* decreases; an unpaired or disconnected event leaves the registry as it
\* was, its device still in it; and the event that follows an unpaired or
\* disconnected event of handle h, when it carries h, is dispatched to every
\* listener, whatever its type, with the Myo the registry held for h.
C27_RegistryOnlyGrows ==
    /\ []((/\ Dispatching
            /\ thrown = "none"
            /\ libmyo_event_get_type(event)
                 \in {libmyo_event_unpaired, libmyo_event_disconnected})
           => /\ Len(_myos) = sizeBefore
              /\ KnownBefore(libmyo_event_get_myo(event))
                   => libmyo_event_get_myo(event) \in Registered)
    /\ [][/\ Len(_myos') >= Len(_myos)
          /\ \A i \in 1 .. Len(_myos) : _myos'[i] = _myos[i]
          /\ (GoneDispatched /\ NextForSameHandle) =>
               LET made == calls'
                   myo == lookupMyo(_myos, libmyo_event_get_myo(event))
               IN  /\ \A k \in 1 .. Len(_listeners') :
                        \E n \in 1 .. Len(made) : made[n].listener = _listeners'[k]
                   /\ \A n \in 1 .. Len(Typed(made)) : Typed(made)[n].myo = myo
                   /\ \A n \in 1 .. Len(Typed(calls)) : Typed(calls)[n].myo = myo]_vars

\* A listener has received the unpaired event of a device while two devices
\* are registered: both are still in the registry.
C27_Witness ==
    /\ GoneDispatched
    /\ libmyo_event_get_type(event) = libmyo_event_unpaired
    /\ \E n \in 1 .. Len(calls) : calls[n].method = "onUnpair"
    /\ sizeBefore = 2
    /\ Len(_myos) = 2

\* C28: Hub::waitForMyo never invokes a listener.  From the call of
\* waitForMyo on, through every event its polls produce (the pairing event
\* that ends the wait and the events of registered devices included) and
\* after it has returned, no listener call has been made and the listener
\* list is the one the call found.
C28_WaitCallsNoListener ==
    op = "waitForMyo" =>
        /\ calls = <<>>
        /\ order = <<>>
        /\ _listeners = listenersBefore
        /\ _listeners = registered

\* During waitForMyo, with two listeners registered, the handler was given
\* a pose event of a registered device.
C28_Witness ==
    /\ op = "waitForMyo"
    /\ event # NoEvent
    /\ libmyo_event_get_type(event) = libmyo_event_pose
    /\ KnownBefore(libmyo_event_get_myo(event))
    /\ Len(_listeners) = 2
    /\ calls = <<>>

\* C29: wrapper identity is stable per device.  The Myo that waitForMyo
\* returned for a handle is the Myo the registry lookup of every dispatch
\* finds for that handle, and every typed callback of a dispatched event
\* receives that one Myo of the event's handle.
C29_OneWrapperPerDevice ==
    /\ (op = "waitForMyo" /\ pc = "idle" /\ ret # <<>> /\ ret # <<NULL>>) =>
         lookupMyo(_myos, _myos[ret[1]]._myo) = ret[1]
    /\ Dispatched =>
         \A n \in 1 .. Len(Typed(calls)) :
             Typed(calls)[n].myo = lookupMyo(_myos, libmyo_event_get_myo(event))

\* C30: each waitForMyo call adds at most one entry to the registry, and
\* when it returns a device, that device is the last registry entry and was
\* added during this call: the registry is exactly one longer than at entry.
C30_WaitAddsAtMostOne ==
    op = "waitForMyo" =>
        /\ Len(_myos) \in {prevSize, prevSize + 1}
        /\ (pc = "idle" /\ ret # <<>> /\ ret # <<NULL>>) =>
             /\ Len(_myos) = prevSize + 1
             /\ ret = <<_myos[Len(_myos)].addr>>

\* waitForMyo has returned the second device of the registry, which held
\* one device at entry.
C30_Witness ==
    /\ op = "waitForMyo"
    /\ pc = "idle"
    /\ prevSize = 1
    /\ Len(_myos) = 2
    /\ ret = <<2>>

\* The handler of runOnce was given an event that Hub::onDeviceEvent
\* dropped: its handle was not in the registry and its type is not paired.
RunOnceDropped ==
    /\ op = "runOnce"
    /\ pc = "inrun"
    /\ event # NoEvent
    /\ libmyo_event_get_type(event) # libmyo_event_paired
    /\ ~KnownBefore(libmyo_event_get_myo(event))

\* C31: Hub::runOnce returns after the first event the poll produces,
\* dispatched or not.  When the first event is dropped, no listener has been
\* called in the call, the handler has answered stop, and the next step of
\* the call is its return: no further event, of a registered device or not,
\* reaches the handler or a listener in that call.
C31_RunOnceEndsAfterDropped ==
    /\ [](RunOnceDropped =>
            /\ nEvents = 1
            /\ calls = <<>>
            /\ order = <<>>
            /\ thrown = "none"
            /\ handlerResult = libmyo_handler_stop)
    /\ [][RunOnceDropped =>
            /\ pc' = "idle"
            /\ op' = "runOnce"
            /\ event' = NoEvent
            /\ nEvents' = 1
            /\ calls' = <<>>
            /\ order' = <<>>
            /\ _myos' = _myos]_vars

\* runOnce has dropped a pose event of an unknown handle while another
\* device is registered and a listener listens.
C31_Witness ==
    /\ RunOnceDropped
    /\ libmyo_event_get_type(event) = libmyo_event_pose
    /\ libmyo_event_get_myo(event) \in Handles
    /\ Len(_myos) = 1
    /\ Len(_listeners) >= 1

\* The positions in calls of the calls of the method made on the listener.
CallsOf(listener, methods) ==
    {n \in 1 .. Len(calls) : calls[n].listener = listener /\ calls[n].method \in methods}

\* C32: for every dispatched event of a registered device, whatever its
\* type (the types without a typed case, such as battery_level, included),
\* each registered listener's onOpaqueEvent is called exactly once, with
\* that event, and before every typed callback that listener receives for
\* the event.
C32_OpaqueOnceBeforeTyped ==
    Dispatched =>
        \A k \in 1 .. Len(_listeners) :
            LET opaque == CallsOf(_listeners[k], {"onOpaqueEvent"})
                typed == {n \in 1 .. Len(calls) :
                             /\ calls[n].listener = _listeners[k]
                             /\ calls[n].method # "onOpaqueEvent"}
            IN  /\ Cardinality(opaque) = 1
                /\ \A n \in opaque : calls[n].args = <<event>>
                /\ \A n \in opaque, m \in typed : n < m

\* Two listeners have received a battery_level event of a registered
\* device: each got onOpaqueEvent and nothing else.
C32_Witness ==
    /\ Dispatched
    /\ libmyo_event_get_type(event) = libmyo_event_battery_level
    /\ Len(_listeners) = 2
    /\ Len(calls) = 2
    /\ calls[1].method = "onOpaqueEvent"
    /\ calls[2].method = "onOpaqueEvent"

\* The position of the listener in the listener list.
ListenerPos(listener) == CHOOSE k \in 1 .. Len(_listeners) : _listeners[k] = listener

\* The methods of the typed calls made on the listener, in call order.
TypedMethods(listener) ==
    LET mine == SelectSeq(calls, LAMBDA c : c.listener = listener
                                            /\ c.method # "onOpaqueEvent")
    IN  [n \in 1 .. Len(mine) |-> mine[n].method]

\* C33: dispatch is listener-major.  For one dispatched event the calls are
\* made listener by listener in list order: a listener receives all of its
\* calls before the next listener receives any.  For an orientation event
\* each listener's typed calls are onOrientationData, onAccelerometerData
\* and onGyroscopeData, in that order.
C33_ListenerMajor ==
    Dispatched =>
        /\ \A n \in 1 .. Len(calls) : Contains(_listeners, calls[n].listener)
        /\ \A n, m \in 1 .. Len(calls) :
             n < m => ListenerPos(calls[n].listener) <= ListenerPos(calls[m].listener)
        /\ libmyo_event_get_type(event) = libmyo_event_orientation =>
             \A k \in 1 .. Len(_listeners) :
                 TypedMethods(_listeners[k]) =
                     <<"onOrientationData", "onAccelerometerData", "onGyroscopeData">>

\* Two listeners have received an orientation event: four calls each, those
\* of the first listener before those of the second.
C33_Witness ==
    /\ Dispatched
    /\ libmyo_event_get_type(event) = libmyo_event_orientation
    /\ Len(_listeners) = 2
    /\ Len(calls) = 8
    /\ calls[4].listener = _listeners[1]
    /\ calls[4].method = "onGyroscopeData"
    /\ calls[5].listener = _listeners[2]

\* The number of calls the loop has made on the listener.
Received(listener) == Len(SelectSeq(received, LAMBDA l : l = listener))

\* C34: dispatch is robust to re-entrant listener changes.  When listener
\* callbacks call addListener or removeListener on the Hub during the
\* dispatch of an event, the loop never dereferences an iterator outside
\* the listener list, and once the dispatch is over every listener that was
\* registered when it began and was not removed has received the event
\* exactly once.
C34_ReentrantDispatch ==
    /\ ~pastEnd
    /\ loop \in {"dispatched", "aborted"} =>
         \A k \in 1 .. Len(listenersBefore) :
             listenersBefore[k] \notin removed => Received(listenersBefore[k]) = 1

\* A handler was given a paired event that carries the null handle.
NullPaired ==
    /\ event # NoEvent
    /\ libmyo_event_get_type(event) = libmyo_event_paired
    /\ libmyo_event_get_myo(event) = NULL

\* C35: no registry entry ever wraps a null device handle.  The
\* construction of a Myo for the null handle fails with
\* std::invalid_argument, and the addMyo that failed leaves the registry
\* exactly as it was.
C35_NoNullMyo ==
    /\ [](/\ \A i \in 1 .. Len(_myos) : _myos[i]._myo # NULL
          /\ NullPaired =>
               /\ thrown = "invalid_argument"
               /\ Len(_myos) = sizeBefore
               /\ calls = <<>>)
    /\ [][NullPaired' => _myos' = _myos]_vars

\* A paired event with the null handle has reached a handler while one
\* device is registered: the constructor has thrown and the registry still
\* holds that one device.
C35_Witness ==
    /\ NullPaired
    /\ thrown = "invalid_argument"
    /\ Len(_myos) = 1
    /\ _myos[1]._myo # NULL
=============================================================================
